---- MODULE Spec2Model ----
(***************************************************************************)
(* The cooperative priority scheduler of packages/scheduler/src/forks/     *)
(* Scheduler.js, as a state machine.                                       *)
(*                                                                         *)
(* The module-level variables of Scheduler.js are the VARIABLES.  Every    *)
(* function of the file is an operator from a state record (the record S   *)
(* of all variables) to the state record, or to the set of state records,  *)
(* it can leave behind; an action commits one of them.  A user callback    *)
(* is the only suspension point inside performWorkUntilDeadline: while     *)
(* pc = "callback" the callback of currentTask is on the stack and may     *)
(* itself call the public API, let time pass, return or throw.             *)
(*                                                                         *)
(* Where the file declares a function twice (requestHostCallback,          *)
(* requestHostTimeout, cancelHostTimeout) the later declaration is the     *)
(* one that runs.  advanceTimers and handleTimeout have empty bodies in    *)
(* the file and are modelled as written.  workLoop passes the identifier   *)
(* didUserCallbackTimeout, which the file never declares: in an            *)
(* environment with no global of that name evaluating it throws a          *)
(* ReferenceError before the callback is entered, in an environment with   *)
(* one the callback receives whatever the global holds.  Init chooses the  *)
(* environment; both are kept.                                             *)
(***************************************************************************)
EXTENDS Integers, Sequences, FiniteSets, TLC

\* ------------------------------------------------------------ bounds
MaxTasks == 3          \* tasks created in a run of Spec
MaxFewTasks == 2       \* tasks created in a run of the other specifications
MaxTicks == 1          \* clock advances in a run
MaxConts == 1          \* continuations returned in a run
MaxResumes == 1        \* calls of unstable_continueExecution in a run
MaxScopeTasks == 1     \* tasks created in a run of SpecScope
MaxDepth == 2          \* nested runWithPriority / next / wrapped calls on the stack
MaxWraps == 1          \* functions returned by unstable_wrapCallback and kept
MaxOrder == 2          \* length of an injected plugin ordering


\* ------------------------------------------------- program constants
NoPriority == 0
ImmediatePriority == 1
UserBlockingPriority == 2
NormalPriority == 3
LowPriority == 4
IdlePriority == 5

enableSchedulerDebugging == FALSE
enableProfiling == FALSE
frameYieldMs == 5
userBlockingPriorityTimeout == 250
normalPriorityTimeout == 5000
lowPriorityTimeout == 10000
maxSigned31BitInt == 1073741823

\* SchedulerProfiling: the event log's sizes, in int32 slots
INITIAL_EVENT_LOG_SIZE == 131072
MAX_EVENT_LOG_SIZE == 524288
\* bytes of one Int32Array element
BYTES_PER_ELEMENT == 4

\* null, for a task reference and for a callback reference
NULL == 0
\* taskTimeoutID when no timeout id is held
NoTimeoutID == -1
\* the arguments recorded when the step just taken entered no callback
NoArg == <<>>

VARIABLES
  now,                      \* the clock read by getCurrentTime()
  tasks,                    \* every Task object ever created, by id
  taskQueue,
  timerQueue,
  taskIdCounter,
  isSchedulerPaused,
  currentTask,
  currentPriorityLevel,
  isPerformingWork,
  isHostCallbackScheduled,
  isHostTimeoutScheduled,
  isMessageLoopRunning,
  taskTimeoutID,
  frameInterval,
  startTime,
  hostCallbacks,            \* host: posted, not yet run, performWorkUntilDeadline invocations
  hostTimers,               \* host: armed timers, [id, due]
  pc,                       \* "idle", or "callback" while a task callback is on the stack
  currentTime,              \* workLoop's local currentTime
  previousPriorityLevel,    \* flushWork's local previousPriorityLevel
  ticks,                    \* number of clock advances so far
  globalBound,              \* the environment has a global didUserCallbackTimeout
  scopes,                   \* the runWithPriority / next / wrapped calls on the stack,
                            \* innermost last: [fn, previousPriorityLevel]
  wrapped,                  \* the parentPriorityLevel captured by each wrapped function
  eventLogSize,
  eventLogBuffer,           \* NULL, or the byteLength of the ArrayBuffer
  eventLog,                 \* NULL, or the length of the Int32Array
  eventLogIndex,
  eventPluginOrder,         \* <<>> for null, or <<the array of plugin names>>
  namesToPlugins,           \* the own properties in insertion order: [name, module]
  plugins,                  \* the filled slots: index (from 1) -> module
  eventNameDispatchConfigs, \* event name -> dispatch config
  registrationNameModules,  \* registration name -> module
  hist                      \* history: what has been observed so far

vars == <<now, tasks, taskQueue, timerQueue, taskIdCounter, isSchedulerPaused,
          currentTask, currentPriorityLevel, isPerformingWork,
          isHostCallbackScheduled, isHostTimeoutScheduled, isMessageLoopRunning,
          taskTimeoutID, frameInterval, startTime, hostCallbacks, hostTimers,
          pc, currentTime, previousPriorityLevel, ticks, globalBound, scopes,
          wrapped, eventLogSize, eventLogBuffer, eventLog, eventLogIndex,
          eventPluginOrder, namesToPlugins, plugins, eventNameDispatchConfigs,
          registrationNameModules, hist>>

\* What hist records of the step just taken; reset at the start of every step.
\*   arg       <<the argument>> the callback entered in this step was called with
\*   thrown    an exception left performWorkUntilDeadline in this step
\*   refError  the task whose dispatch raised the ReferenceError in this step
\*   ret       how the callback that returned in this step returned, and whose
\*   exit      how workLoop left its while loop in this step
\*   call      <<priorityLevel, options>> of the unstable_scheduleCallback call
\*             made in this step with an options argument
\*   scope     what this step did to the stack of runWithPriority / next /
\*             wrapped calls: <<"runWithPriority", p>>, <<"next">>,
\*             <<"wrapped", level>>, <<"return", fn>> or <<"throw", fn>>
\*   fps       <<fps>> of the forceFrameRate call made in this step
\*   returned  <<the boolean>> workLoop returned in this step, <<>> when it
\*             did not return
\*   advanced  <<the argument>> of the latest advanceTimers call in this step
\*   fired     <<the argument>> handleTimeout was called with when a host
\*             timeout fired in this step
\*   logged    <<offset, length>> of the entries logEvent wrote into eventLog
\*             in this step, <<>> when it wrote none
\*   consoleError  logEvent reported on the console in this step
\*   stopped   <<the buffer>> stopLoggingProfilingEvents returned to its
\*             caller in this step
\*   published what the latest publishEventForPlugin call of this step returned
\*   dirty     isOrderingDirty of the injectEventPluginsByName call of this step
\*   injected  <<"order">> or <<"plugins">>: the injection made in this step
NoStep ==
  [arg |-> NoArg, thrown |-> FALSE, refError |-> NULL,
   ret |-> [kind |-> "none", task |-> NULL], exit |-> "none", call |-> <<>>,
   scope |-> <<>>, fps |-> <<>>, returned |-> <<>>, advanced |-> <<>>,
   fired |-> <<>>, logged |-> <<>>, consoleError |-> FALSE, stopped |-> <<>>,
   published |-> FALSE, dirty |-> FALSE, injected |-> <<>>]

\* What hist keeps for good.
\*   delay            the delay each task was submitted with
\*   fns              per task, the functions handed over for it so far (its
\*                    callback is function 1, each continuation the next)
\*   invoked          the <<task, function>> pairs entered so far
\*   canceledWaiting  tasks cancelled while live and not running
\*   canceledRunning  tasks cancelled from inside their own running callback
\*   threw            tasks whose callback threw
\*   resumes          calls of unstable_continueExecution so far
\*   entry            <<the clock reading>> at the latest entry of
\*                    performWorkUntilDeadline, <<>> before the first
\*   inside           the pairs <<a, b>> where ScheduleInCallback created
\*                    task b while the callback of task a was running
NoHistory ==
  [delay |-> <<>>, fns |-> <<>>, invoked |-> {}, canceledWaiting |-> {},
   canceledRunning |-> {}, threw |-> {}, resumes |-> 0, entry |-> <<>>,
   inside |-> {}, step |-> NoStep]

\* The state as one record.
S ==
  [now |-> now, tasks |-> tasks, taskQueue |-> taskQueue, timerQueue |-> timerQueue,
   taskIdCounter |-> taskIdCounter, isSchedulerPaused |-> isSchedulerPaused,
   currentTask |-> currentTask, currentPriorityLevel |-> currentPriorityLevel,
   isPerformingWork |-> isPerformingWork,
   isHostCallbackScheduled |-> isHostCallbackScheduled,
   isHostTimeoutScheduled |-> isHostTimeoutScheduled,
   isMessageLoopRunning |-> isMessageLoopRunning, taskTimeoutID |-> taskTimeoutID,
   frameInterval |-> frameInterval, startTime |-> startTime,
   hostCallbacks |-> hostCallbacks, hostTimers |-> hostTimers, pc |-> pc,
   currentTime |-> currentTime, previousPriorityLevel |-> previousPriorityLevel,
   ticks |-> ticks, globalBound |-> globalBound, scopes |-> scopes,
   wrapped |-> wrapped, eventLogSize |-> eventLogSize,
   eventLogBuffer |-> eventLogBuffer, eventLog |-> eventLog,
   eventLogIndex |-> eventLogIndex, eventPluginOrder |-> eventPluginOrder,
   namesToPlugins |-> namesToPlugins, plugins |-> plugins,
   eventNameDispatchConfigs |-> eventNameDispatchConfigs,
   registrationNameModules |-> registrationNameModules,
   hist |-> [hist EXCEPT !.step = NoStep]]

Commit(s) ==
  /\ now' = s.now
  /\ tasks' = s.tasks
  /\ taskQueue' = s.taskQueue
  /\ timerQueue' = s.timerQueue
  /\ taskIdCounter' = s.taskIdCounter
  /\ isSchedulerPaused' = s.isSchedulerPaused
  /\ currentTask' = s.currentTask
  /\ currentPriorityLevel' = s.currentPriorityLevel
  /\ isPerformingWork' = s.isPerformingWork
  /\ isHostCallbackScheduled' = s.isHostCallbackScheduled
  /\ isHostTimeoutScheduled' = s.isHostTimeoutScheduled
  /\ isMessageLoopRunning' = s.isMessageLoopRunning
  /\ taskTimeoutID' = s.taskTimeoutID
  /\ frameInterval' = s.frameInterval
  /\ startTime' = s.startTime
  /\ hostCallbacks' = s.hostCallbacks
  /\ hostTimers' = s.hostTimers
  /\ pc' = s.pc
  /\ currentTime' = s.currentTime
  /\ previousPriorityLevel' = s.previousPriorityLevel
  /\ ticks' = s.ticks
  /\ globalBound' = s.globalBound
  /\ scopes' = s.scopes
  /\ wrapped' = s.wrapped
  /\ eventLogSize' = s.eventLogSize
  /\ eventLogBuffer' = s.eventLogBuffer
  /\ eventLog' = s.eventLog
  /\ eventLogIndex' = s.eventLogIndex
  /\ eventPluginOrder' = s.eventPluginOrder
  /\ namesToPlugins' = s.namesToPlugins
  /\ plugins' = s.plugins
  /\ eventNameDispatchConfigs' = s.eventNameDispatchConfigs
  /\ registrationNameModules' = s.registrationNameModules
  /\ hist' = s.hist

\* ------------------------------------------------------------ MinHeap
\* SchedulerMinHeap: a min-heap over (sortIndex, id).  A heap is kept as the
\* sequence of its task ids in ascending (sortIndex, id) order, so that the
\* root is the head.  tbl is the table of Task objects the ids refer to.
compare(tbl, a, b) ==
  LET diff == tbl[a].sortIndex - tbl[b].sortIndex
  IN IF diff # 0 THEN diff ELSE tbl[a].id - tbl[b].id

RECURSIVE push(_, _, _)
push(tbl, heap, node) ==
  IF heap = <<>> THEN <<node>>
  ELSE IF compare(tbl, node, Head(heap)) < 0 THEN <<node>> \o heap
  ELSE <<Head(heap)>> \o push(tbl, Tail(heap), node)

peek(heap) == IF heap = <<>> THEN NULL ELSE Head(heap)

pop(heap) == IF heap = <<>> THEN heap ELSE Tail(heap)

\* ------------------------------------------------------- host primitives
\* The host's timer table behind localSetTimeout / localClearTimeout, and its
\* queue of posted performWorkUntilDeadline invocations behind
\* setImmediate / MessageChannel / setTimeout(0).
FreshTimerID(s) ==
  CHOOSE i \in 1..(Cardinality(s.hostTimers) + 2) :
    /\ i # s.taskTimeoutID
    /\ \A tm \in s.hostTimers : tm.id # i

localSetTimeout(s, id, ms) ==
  [s EXCEPT !.hostTimers = @ \cup {[id |-> id, due |-> s.now + (IF ms > 0 THEN ms ELSE 0)]}]

localClearTimeout(s, id) ==
  [s EXCEPT !.hostTimers = {tm \in @ : tm.id # id}]

schedulePerformWorkUntilDeadline(s) ==
  [s EXCEPT !.hostCallbacks = @ + 1]

\* -------------------------------------------------------- Scheduler.js
\* a requestHostCallback that posts without looking at isMessageLoopRunning
requestHostCallbackAlways(s) ==
  schedulePerformWorkUntilDeadline([s EXCEPT !.isMessageLoopRunning = TRUE])

requestHostCallback(s) ==
  IF ~s.isMessageLoopRunning
  THEN schedulePerformWorkUntilDeadline([s EXCEPT !.isMessageLoopRunning = TRUE])
  ELSE s

requestHostTimeout(s, ms) ==
  LET id == FreshTimerID(s)
  IN [localSetTimeout(s, id, ms) EXCEPT !.taskTimeoutID = id]

\* a cancelHostTimeout that forgets the id without clearing the timer
cancelHostTimeoutForget(s) == [s EXCEPT !.taskTimeoutID = NoTimeoutID]

cancelHostTimeout(s) ==
  [localClearTimeout(s, s.taskTimeoutID) EXCEPT !.taskTimeoutID = NoTimeoutID]

\* function advanceTimers(currentTime) { } : the body is empty.  The call is
\* recorded in the history of the step.
advanceTimers(s, time) == [s EXCEPT !.hist.step.advanced = <<time>>]

\* function handleTimeout(currentTime) { } : the body is empty.
handleTimeout(s, time) == s

\* a shouldYieldToHost that still says no when the interval has just run out
shouldYieldToHostLate(s) ==
  LET timeElapsed == s.now - s.startTime
  IN IF timeElapsed <= s.frameInterval THEN FALSE ELSE TRUE

shouldYieldToHost(s) ==
  LET timeElapsed == s.now - s.startTime
  IN IF timeElapsed < s.frameInterval THEN FALSE ELSE TRUE

\* The options argument of unstable_scheduleCallback: what typeof gives for
\* it, and its delay property as <<n>> when that is a number, <<>> when it is
\* missing or not a number.
NoOptions == [type |-> "undefined", delay |-> <<>>]

Options(delays) ==
  {NoOptions, [type |-> "object", delay |-> <<>>]}
    \cup {[type |-> "object", delay |-> <<d>>] : d \in delays}

\* the delay unstable_scheduleCallback reads from its options argument
optionsDelay(options) ==
  IF options.type = "object" /\ options.delay # <<>> THEN options.delay[1] ELSE 0

\* a switch without the ImmediatePriority case
timeoutOfNoImmediate(priorityLevel) ==
  CASE priorityLevel = UserBlockingPriority -> userBlockingPriorityTimeout
    [] priorityLevel = IdlePriority -> maxSigned31BitInt
    [] priorityLevel = LowPriority -> lowPriorityTimeout
    [] OTHER -> normalPriorityTimeout

unstable_getCurrentPriorityLevel(s) == s.currentPriorityLevel

\* an unstable_runWithPriority without the switch
unstable_runWithPriorityAsGiven(s, priorityLevel) ==
  [s EXCEPT !.scopes = Append(@, [fn |-> "runWithPriority",
                                   previousPriorityLevel |-> s.currentPriorityLevel]),
            !.currentPriorityLevel = priorityLevel]

\* unstable_runWithPriority up to the call of eventHandler
unstable_runWithPriority(s, priorityLevel) ==
  LET level == IF priorityLevel \in {ImmediatePriority, UserBlockingPriority,
                                      NormalPriority, LowPriority, IdlePriority}
               THEN priorityLevel
               ELSE NormalPriority
  IN [s EXCEPT !.scopes = Append(@, [fn |-> "runWithPriority",
                                      previousPriorityLevel |-> s.currentPriorityLevel]),
               !.currentPriorityLevel = level]

\* an unstable_next that always keeps the current level
unstable_nextKeep(s) ==
  [s EXCEPT !.scopes = Append(@, [fn |-> "next",
                                   previousPriorityLevel |-> s.currentPriorityLevel])]

\* unstable_next up to the call of eventHandler
unstable_next(s) ==
  LET level == IF s.currentPriorityLevel \in {ImmediatePriority, UserBlockingPriority,
                                               NormalPriority}
               THEN NormalPriority
               ELSE s.currentPriorityLevel
  IN [s EXCEPT !.scopes = Append(@, [fn |-> "next",
                                      previousPriorityLevel |-> s.currentPriorityLevel]),
               !.currentPriorityLevel = level]

\* unstable_wrapCallback: the returned function keeps parentPriorityLevel
unstable_wrapCallback(s) ==
  [s EXCEPT !.wrapped = @ \cup {s.currentPriorityLevel}]

\* a wrapped function that runs callback at the level of its caller
wrappedCallbackAtCallTime(s, parentPriorityLevel) ==
  [s EXCEPT !.scopes = Append(@, [fn |-> "wrapped",
                                   previousPriorityLevel |-> s.currentPriorityLevel])]

\* the function unstable_wrapCallback returned, up to the call of callback
wrappedCallback(s, parentPriorityLevel) ==
  [s EXCEPT !.scopes = Append(@, [fn |-> "wrapped",
                                   previousPriorityLevel |-> s.currentPriorityLevel]),
            !.currentPriorityLevel = parentPriorityLevel]

\* the finally of unstable_runWithPriority, unstable_next and the wrapped
\* function: currentPriorityLevel = previousPriorityLevel
restorePriorityLevel(s) ==
  [s EXCEPT !.currentPriorityLevel = s.scopes[Len(s.scopes)].previousPriorityLevel,
            !.scopes = SubSeq(@, 1, Len(@) - 1)]

\* a forceFrameRate that turns 125 fps down as well
forceFrameRateBelow125(s, fps) ==
  IF fps < 0 \/ fps >= 125
  THEN s
  ELSE IF fps > 0
       THEN [s EXCEPT !.frameInterval = 1000 \div fps]
       ELSE [s EXCEPT !.frameInterval = frameYieldMs]

\* forceFrameRate(fps), fps an integer: Math.floor(1000 / fps) is 1000 \div fps
forceFrameRate(s, fps) ==
  IF fps < 0 \/ fps > 125
  THEN s
  ELSE IF fps > 0
       THEN [s EXCEPT !.frameInterval = 1000 \div fps]
       ELSE [s EXCEPT !.frameInterval = frameYieldMs]

\* the switch of unstable_scheduleCallback
timeoutOf(priorityLevel) ==
  CASE priorityLevel = ImmediatePriority -> -1
    [] priorityLevel = UserBlockingPriority -> userBlockingPriorityTimeout
    [] priorityLevel = IdlePriority -> maxSigned31BitInt
    [] priorityLevel = LowPriority -> lowPriorityTimeout
    [] OTHER -> normalPriorityTimeout


\* a delayed task keyed by its expiration time instead of its start time
timerSortIndexExpiration(task) == task.expirationTime

\* a ready task whose sortIndex is left at its initial -1
readySortIndexUnset(task) == -1

\* a ready task keyed by its start time instead of its expiration time
readySortIndexStart(task) == task.startTime

\* the sort key unstable_scheduleCallback gives a task it puts in taskQueue
readySortIndex(task) == task.expirationTime

\* the sort key unstable_scheduleCallback gives a task it puts in timerQueue
timerSortIndex(task) == task.startTime

\* no guard at all: a host callback is requested on every call
mayRequestHostCallbackAlways(s) == TRUE

\* a guard that lets a running callback request a host callback
mayRequestHostCallbackWhileWorking(s) == ~s.isHostCallbackScheduled

\* The guard under which unstable_scheduleCallback and
\* unstable_continueExecution request a host callback.
mayRequestHostCallback(s) == ~s.isHostCallbackScheduled /\ ~s.isPerformingWork

\* a counter that is read but not incremented
taskIdCounterKept(s) == s.taskIdCounter

\* taskIdCounter after `id: taskIdCounter++`
taskIdCounterIncremented(s) == s.taskIdCounter + 1

unstable_scheduleCallback(s, priorityLevel, delay) ==
  LET time == s.now
      start == IF delay > 0 THEN time + delay ELSE time
      timeout == timeoutOf(priorityLevel)
      expirationTime == start + timeout
      id == s.taskIdCounter
      newTask == [id |-> id, callback |-> 1, priorityLevel |-> priorityLevel,
                  startTime |-> start, expirationTime |-> expirationTime,
                  sortIndex |-> -1]
      s1 == [s EXCEPT !.taskIdCounter = taskIdCounterIncremented(s),
                      !.hist.delay = Append(@, delay),
                      !.hist.fns = Append(@, 1)]
  IN IF start > time
     THEN LET t1 == [newTask EXCEPT !.sortIndex = timerSortIndex(newTask)]
              tbl == Append(s1.tasks, t1)
              s2 == [s1 EXCEPT !.tasks = tbl, !.timerQueue = push(tbl, @, id)]
          IN IF peek(s2.taskQueue) = NULL /\ id = peek(s2.timerQueue)
             THEN LET s3 == IF s2.isHostTimeoutScheduled
                            THEN cancelHostTimeout(s2)
                            ELSE [s2 EXCEPT !.isHostTimeoutScheduled = TRUE]
                  IN requestHostTimeout(s3, start - time)
             ELSE s2
     ELSE LET t1 == [newTask EXCEPT !.sortIndex = readySortIndex(newTask)]
              tbl == Append(s1.tasks, t1)
              s2 == [s1 EXCEPT !.tasks = tbl, !.taskQueue = push(tbl, @, id)]
          IN IF mayRequestHostCallback(s2)
             THEN requestHostCallback([s2 EXCEPT !.isHostCallbackScheduled = TRUE])
             ELSE s2

unstable_pauseExecution(s) == [s EXCEPT !.isSchedulerPaused = TRUE]

\* an unstable_continueExecution that asks for a host callback whatever the
\* flags say
unstable_continueExecutionAlways(s) ==
  requestHostCallback([s EXCEPT !.isSchedulerPaused = FALSE,
                                !.isHostCallbackScheduled = TRUE])

unstable_continueExecution(s) ==
  LET s1 == [s EXCEPT !.isSchedulerPaused = FALSE]
  IN IF mayRequestHostCallback(s1)
     THEN requestHostCallback([s1 EXCEPT !.isHostCallbackScheduled = TRUE])
     ELSE s1


\* a cancel that takes the task out of the ready queue as well
unstable_cancelCallbackRemove(s, task) ==
  [s EXCEPT !.tasks[task].callback = NULL,
            !.taskQueue = SelectSeq(@, LAMBDA u : u # task)]

\* a cancel that leaves the callback in place
unstable_cancelCallbackKeep(s, task) == s

unstable_cancelCallback(s, task) ==
  [s EXCEPT !.tasks[task].callback = NULL]

\* a flushWork whose finally leaves currentPriorityLevel as the task set it
finishWorkKeepLevel(s, hasMoreWork, threw) ==
  LET s1 == [s EXCEPT !.currentTask = NULL,
                      !.isPerformingWork = FALSE,
                      !.pc = "idle",
                      !.currentTime = 0,
                      !.previousPriorityLevel = NormalPriority,
                      !.hist.step.thrown = threw,
                      !.hist.step.returned = IF threw THEN <<>> ELSE <<hasMoreWork>>]
  IN IF threw \/ hasMoreWork
     THEN schedulePerformWorkUntilDeadline(s1)
     ELSE [s1 EXCEPT !.isMessageLoopRunning = FALSE]

\* a flushWork whose finally leaves isPerformingWork set
finishWorkStillPerforming(s, hasMoreWork, threw) ==
  LET s1 == [s EXCEPT !.currentTask = NULL,
                      !.currentPriorityLevel = s.previousPriorityLevel,
                      !.pc = "idle",
                      !.currentTime = 0,
                      !.previousPriorityLevel = NormalPriority,
                      !.hist.step.thrown = threw,
                      !.hist.step.returned = IF threw THEN <<>> ELSE <<hasMoreWork>>]
  IN IF threw \/ hasMoreWork
     THEN schedulePerformWorkUntilDeadline(s1)
     ELSE [s1 EXCEPT !.isMessageLoopRunning = FALSE]

\* a driver whose hasMoreWork starts out false: a throw posts no next run
finishWorkNoRetry(s, hasMoreWork, threw) ==
  LET s1 == [s EXCEPT !.currentTask = NULL,
                      !.currentPriorityLevel = s.previousPriorityLevel,
                      !.isPerformingWork = FALSE,
                      !.pc = "idle",
                      !.currentTime = 0,
                      !.previousPriorityLevel = NormalPriority,
                      !.hist.step.thrown = threw,
                      !.hist.step.returned = IF threw THEN <<>> ELSE <<hasMoreWork>>]
  IN IF hasMoreWork /\ ~threw
     THEN schedulePerformWorkUntilDeadline(s1)
     ELSE [s1 EXCEPT !.isMessageLoopRunning = FALSE]

\* The rest of performWorkUntilDeadline once flushWork has returned
\* hasMoreWork or thrown: flushWork's finally, then the driver's finally.
\* When flushWork throws, hasMoreWork keeps its initial value true.  The
\* locals of workLoop and flushWork are dead afterwards and are reset.
finishWork(s, hasMoreWork, threw) ==
  LET s1 == [s EXCEPT !.currentTask = NULL,
                      !.currentPriorityLevel = s.previousPriorityLevel,
                      !.isPerformingWork = FALSE,
                      !.pc = "idle",
                      !.currentTime = 0,
                      !.previousPriorityLevel = NormalPriority,
                      !.hist.step.thrown = threw,
                      !.hist.step.returned = IF threw THEN <<>> ELSE <<hasMoreWork>>]
  IN IF threw \/ hasMoreWork
     THEN schedulePerformWorkUntilDeadline(s1)
     ELSE [s1 EXCEPT !.isMessageLoopRunning = FALSE]

\* an end of workLoop that returns false whenever the loop was left
workLoopEndNoMore(s) ==
  LET firstTimer == peek(s.timerQueue)
      s1 == IF firstTimer # NULL
            THEN requestHostTimeout(s, s.tasks[firstTimer].startTime - s.currentTime)
            ELSE s
      exit == IF s.currentTask # NULL THEN "yield" ELSE "empty"
  IN finishWork([s1 EXCEPT !.hist.step.exit = exit], FALSE, FALSE)

\* The end of workLoop, after the while loop.  With enableSchedulerDebugging
\* off the loop is left with a task in hand only by its break.
workLoopEnd(s) ==
  IF s.currentTask # NULL
  THEN finishWork([s EXCEPT !.hist.step.exit = "yield"], TRUE, FALSE)
  ELSE LET firstTimer == peek(s.timerQueue)
           s1 == IF firstTimer # NULL
                 THEN requestHostTimeout(s, s.tasks[firstTimer].startTime - s.currentTime)
                 ELSE s
       IN finishWork([s1 EXCEPT !.hist.step.exit = "empty"], FALSE, FALSE)

\* a break condition that ignores the task's expiration time
mustYieldExpired(s) == shouldYieldToHost(s)

\* workLoop's break condition
mustYield(s) ==
  s.tasks[s.currentTask].expirationTime > s.currentTime /\ shouldYieldToHost(s)


\* workLoop taking the last entry of taskQueue instead of its root
nextTaskLast(s) == IF s.taskQueue = <<>> THEN NULL ELSE s.taskQueue[Len(s.taskQueue)]

\* the task workLoop takes up next: currentTask = peek(taskQueue)
nextTask(s) == peek(s.taskQueue)

\* a workLoop that does not clear the callback before calling it
dispatchKeepCallback(s) ==
  LET t == s.currentTask
      fn == s.tasks[t].callback
      s1 == [s EXCEPT !.currentPriorityLevel = s.tasks[t].priorityLevel]
  IN IF s.globalBound
     THEN {[s1 EXCEPT !.pc = "callback",
                      !.hist.invoked = @ \cup {<<t, fn>>},
                      !.hist.step.arg = <<arg>>] : arg \in BOOLEAN}
     ELSE {finishWork([s1 EXCEPT !.hist.step.refError = t], TRUE, TRUE)}

\* workLoop dispatching currentTask: the callback is cleared, the priority set,
\* then callback(didUserCallbackTimeout) is evaluated.  The identifier is not
\* declared in the file.  Without a global of that name the evaluation throws
\* a ReferenceError: the callback is not entered and the error leaves
\* flushWork.  With one, the callback is entered with the global's value,
\* whatever that is.
dispatch(s) ==
  LET t == s.currentTask
      fn == s.tasks[t].callback
      s1 == [s EXCEPT !.tasks[t].callback = NULL,
                      !.currentPriorityLevel = s.tasks[t].priorityLevel]
  IN IF s.globalBound
     THEN {[s1 EXCEPT !.pc = "callback",
                      !.hist.invoked = @ \cup {<<t, fn>>},
                      !.hist.step.arg = <<arg>>] : arg \in BOOLEAN}
     ELSE {finishWork([s1 EXCEPT !.hist.step.refError = t], TRUE, TRUE)}

\* The while loop of workLoop from its head, currentTask already peeked.
RECURSIVE workLoopFrom(_)
workLoopFrom(s) ==
  IF s.currentTask # NULL /\ ~(enableSchedulerDebugging /\ s.isSchedulerPaused)
  THEN IF mustYield(s)
       THEN {workLoopEnd(s)}
       ELSE IF s.tasks[s.currentTask].callback # NULL
            THEN dispatch(s)
            ELSE LET s1 == [s EXCEPT !.taskQueue = pop(@)]
                 IN workLoopFrom([s1 EXCEPT !.currentTask = nextTask(s1)])
  ELSE {workLoopEnd(s)}

workLoop(s, initialTime) ==
  LET s1 == advanceTimers([s EXCEPT !.currentTime = initialTime], initialTime)
  IN workLoopFrom([s1 EXCEPT !.currentTask = nextTask(s1)])

flushWork(s, initialTime) ==
  LET s1 == [s EXCEPT !.isHostCallbackScheduled = FALSE]
      s2 == IF s1.isHostTimeoutScheduled
            THEN cancelHostTimeout([s1 EXCEPT !.isHostTimeoutScheduled = FALSE])
            ELSE s1
      s3 == [s2 EXCEPT !.isPerformingWork = TRUE,
                       !.previousPriorityLevel = s2.currentPriorityLevel]
  IN workLoop(s3, initialTime)

performWorkUntilDeadline(s) ==
  IF s.isMessageLoopRunning
  THEN flushWork([s EXCEPT !.startTime = s.now], s.now)
  ELSE {s}

\* a workLoop that pushes the task again when its callback returned a function
continuationReturnedRepush(s) ==
  LET t == s.currentTask
      fn == s.hist.fns[t] + 1
      s1 == [s EXCEPT !.currentTime = s.now,
                      !.tasks[t].callback = fn,
                      !.taskQueue = push(s.tasks, @, t),
                      !.hist.fns[t] = fn,
                      !.hist.step.ret = [kind |-> "continuation", task |-> t]]
  IN finishWork(advanceTimers(s1, s1.currentTime), TRUE, FALSE)

\* a workLoop that yields on a returned function without storing it
continuationReturnedForget(s) ==
  LET t == s.currentTask
      fn == s.hist.fns[t] + 1
      s1 == [s EXCEPT !.currentTime = s.now,
                      !.hist.fns[t] = fn,
                      !.hist.step.ret = [kind |-> "continuation", task |-> t]]
  IN finishWork(advanceTimers(s1, s1.currentTime), TRUE, FALSE)

\* The callback of currentTask returns to workLoop with a function.
continuationReturned(s) ==
  LET t == s.currentTask
      fn == s.hist.fns[t] + 1
      s1 == [s EXCEPT !.currentTime = s.now,
                      !.tasks[t].callback = fn,
                      !.hist.fns[t] = fn,
                      !.hist.step.ret = [kind |-> "continuation", task |-> t]]
  IN finishWork(advanceTimers(s1, s1.currentTime), TRUE, FALSE)

\* The callback of currentTask returns to workLoop with a non-function.
valueReturned(s) ==
  LET t == s.currentTask
      s1 == [s EXCEPT !.currentTime = s.now,
                      !.hist.step.ret = [kind |-> "value", task |-> t]]
      s2 == IF t = peek(s1.taskQueue) THEN [s1 EXCEPT !.taskQueue = pop(@)] ELSE s1
      s3 == advanceTimers(s2, s2.currentTime)
  IN workLoopFrom([s3 EXCEPT !.currentTask = nextTask(s3)])

\* The callback of currentTask throws: nothing in workLoop or flushWork catches.
callbackThrew(s) ==
  finishWork([s EXCEPT !.hist.threw = @ \cup {s.currentTask},
                       !.hist.step.ret = [kind |-> "throw", task |-> s.currentTask]],
             TRUE, TRUE)

\* ---------------------------------------------------- EventPluginRegistry
\* The plugin modules handed to the registry.  A module is NULL or a record:
\*   extractEvents  the module has an extractEvents method
\*   eventTypes     its published events in property order, each with
\*                  <<its registrationName>> and its phasedRegistrationNames
\*                  (<<>> when it has none)
PluginModules ==
  <<[extractEvents |-> TRUE,
     eventTypes |-> <<[eventName |-> "click", registrationName |-> <<"onClick">>,
                       phasedRegistrationNames |-> <<>>]>>],
    [extractEvents |-> TRUE,
     eventTypes |-> <<[eventName |-> "change", registrationName |-> <<>>,
                       phasedRegistrationNames |-> <<"onChange", "onChangeCapture">>]>>],
    [extractEvents |-> TRUE,
     eventTypes |-> <<[eventName |-> "tap", registrationName |-> <<"onClick">>,
                       phasedRegistrationNames |-> <<>>]>>],
    [extractEvents |-> FALSE, eventTypes |-> <<>>],
    [extractEvents |-> TRUE,
     eventTypes |-> <<[eventName |-> "scroll", registrationName |-> <<>>,
                       phasedRegistrationNames |-> <<>>]>>]>>

\* Array.prototype.indexOf, counting from 1; 0 when x is not in q
RECURSIVE indexOf(_, _)
indexOf(q, x) ==
  IF q = <<>> THEN 0
  ELSE IF Head(q) = x THEN 1
  ELSE LET i == indexOf(Tail(q), x) IN IF i = 0 THEN 0 ELSE i + 1

\* obj.hasOwnProperty(name) for an object kept as its properties in order
hasOwnProperty(obj, name) == \E i \in DOMAIN obj : obj[i].name = name

\* obj[name]: NULL (undefined) when obj has no such property
property(obj, name) ==
  IF hasOwnProperty(obj, name)
  THEN obj[CHOOSE i \in DOMAIN obj : obj[i].name = name].module
  ELSE NULL

\* obj[name] = module: an existing property keeps its place
setProperty(obj, name, module) ==
  IF hasOwnProperty(obj, name)
  THEN [i \in DOMAIN obj |-> IF obj[i].name = name
                              THEN [name |-> name, module |-> module]
                              ELSE obj[i]]
  ELSE Append(obj, [name |-> name, module |-> module])

throw(s) == [s EXCEPT !.hist.step.thrown = TRUE]

publishRegistrationName(s, registrationName, pluginModule) ==
  IF /\ registrationName \in DOMAIN s.registrationNameModules
     /\ s.registrationNameModules[registrationName] # NULL
  THEN throw(s)
  ELSE [s EXCEPT !.registrationNameModules = (registrationName :> pluginModule) @@ @]

\* the loop of publishEventForPlugin over phasedRegistrationNames
RECURSIVE publishPhased(_, _, _)
publishPhased(s, names, pluginModule) ==
  IF names = <<>> \/ s.hist.step.thrown THEN s
  ELSE publishPhased(publishRegistrationName(s, Head(names), pluginModule),
                     Tail(names), pluginModule)

\* publishEventForPlugin: the state it leaves, and through hist.step.published
\* the boolean it returns when it does not throw
publishEventForPlugin(s, dispatchConfig, pluginModule) ==
  IF dispatchConfig.eventName \in DOMAIN s.eventNameDispatchConfigs
  THEN throw(s)
  ELSE LET s1 == [s EXCEPT !.eventNameDispatchConfigs =
                             (dispatchConfig.eventName :> dispatchConfig) @@ @]
       IN IF dispatchConfig.phasedRegistrationNames # <<>>
          THEN [publishPhased(s1, dispatchConfig.phasedRegistrationNames, pluginModule)
                  EXCEPT !.hist.step.published = TRUE]
          ELSE IF dispatchConfig.registrationName # <<>>
          THEN [publishRegistrationName(s1, dispatchConfig.registrationName[1], pluginModule)
                  EXCEPT !.hist.step.published = TRUE]
          ELSE [s1 EXCEPT !.hist.step.published = FALSE]

\* the loop of recomputePluginOrdering over a module's eventTypes
RECURSIVE publishEvents(_, _, _)
publishEvents(s, publishedEvents, pluginModule) ==
  IF publishedEvents = <<>> \/ s.hist.step.thrown THEN s
  ELSE LET s1 == publishEventForPlugin(s, Head(publishedEvents), pluginModule)
       IN IF s1.hist.step.thrown THEN s1
          ELSE IF ~s1.hist.step.published THEN throw(s1)
          ELSE publishEvents(s1, Tail(publishedEvents), pluginModule)

\* a registry that puts a module into the first free slot
slotFirstFree(s, pluginName) ==
  IF indexOf(s.eventPluginOrder[1], pluginName) = 0 THEN 0
  ELSE IF \E i \in 1..Len(s.eventPluginOrder[1]) : i \notin DOMAIN s.plugins
  THEN CHOOSE i \in 1..Len(s.eventPluginOrder[1]) :
         i \notin DOMAIN s.plugins /\ \A j \in 1..(i - 1) : j \in DOMAIN s.plugins
  ELSE indexOf(s.eventPluginOrder[1], pluginName)

\* pluginIndex = eventPluginOrder.indexOf(pluginName)
slot(s, pluginName) == indexOf(s.eventPluginOrder[1], pluginName)

\* the for-in loop of recomputePluginOrdering from the i-th property on
RECURSIVE recomputeFrom(_, _)
recomputeFrom(s, i) ==
  IF i > Len(s.namesToPlugins) \/ s.hist.step.thrown THEN s
  ELSE LET pluginName == s.namesToPlugins[i].name
           pluginModule == s.namesToPlugins[i].module
           pluginIndex == slot(s, pluginName)
       IN IF pluginIndex = 0 THEN throw(s)
          ELSE IF pluginIndex \in DOMAIN s.plugins THEN recomputeFrom(s, i + 1)
          ELSE IF pluginModule = NULL THEN throw(s)
          ELSE IF ~PluginModules[pluginModule].extractEvents THEN throw(s)
          ELSE LET s1 == [s EXCEPT !.plugins = (pluginIndex :> pluginModule) @@ @]
               IN recomputeFrom(
                    publishEvents(s1, PluginModules[pluginModule].eventTypes,
                                  pluginModule),
                    i + 1)

recomputePluginOrdering(s) ==
  IF s.eventPluginOrder = <<>> THEN s ELSE recomputeFrom(s, 1)

\* injectEventPluginOrder called with <<>> for null or with <<an array>>;
\* slicing null raises a TypeError
injectEventPluginOrder(s, injectedEventPluginOrder) ==
  IF s.eventPluginOrder # <<>>
  THEN throw(s)
  ELSE IF injectedEventPluginOrder = <<>>
  THEN throw(s)
  ELSE recomputePluginOrdering(
         [s EXCEPT !.eventPluginOrder = injectedEventPluginOrder])

\* the for-in loop of injectEventPluginsByName from the i-th property on
RECURSIVE injectFrom(_, _, _)
injectFrom(s, injected, i) ==
  IF i > Len(injected) THEN s
  ELSE LET pluginName == injected[i].name
           pluginModule == injected[i].module
       IN IF \/ ~hasOwnProperty(s.namesToPlugins, pluginName)
             \/ property(s.namesToPlugins, pluginName) # pluginModule
          THEN IF property(s.namesToPlugins, pluginName) # NULL
               THEN throw(s)
               ELSE injectFrom(
                      [s EXCEPT !.namesToPlugins = setProperty(@, pluginName, pluginModule),
                                !.hist.step.dirty = TRUE],
                      injected, i + 1)
          ELSE injectFrom(s, injected, i + 1)

injectEventPluginsByName(s, injectedNamesToPlugins) ==
  LET s1 == injectFrom(s, injectedNamesToPlugins, 1)
  IN IF s1.hist.step.thrown THEN s1
     ELSE IF s1.hist.step.dirty THEN recomputePluginOrdering(s1)
     ELSE s1

\* ---------------------------------------------------- SchedulerProfiling
startLoggingProfilingEvents(s) ==
  LET size == INITIAL_EVENT_LOG_SIZE
      bytes == size * 4
  IN [s EXCEPT !.eventLogSize = size,
               !.eventLogBuffer = bytes,
               !.eventLog = bytes \div BYTES_PER_ELEMENT,
               !.eventLogIndex = 0]

stopLoggingProfilingEvents(s) ==
  [s EXCEPT !.eventLogSize = 0,
            !.eventLogBuffer = NULL,
            !.eventLog = NULL,
            !.eventLogIndex = 0,
            !.hist.step.stopped = <<s.eventLogBuffer>>]

\* the length of the Int32Array logEvent allocates when it grows the log
grownEventLog(size) == size * 4

\* logEvent(entries) for an entries array of the given length.
\* eventLog.set(entries, offset) raises a RangeError when the entries do not
\* fit into the array.
logEvent(s, length) ==
  IF s.eventLog # NULL
  THEN LET offset == s.eventLogIndex
           s1 == [s EXCEPT !.eventLogIndex = @ + length]
           set(u) == IF offset + length <= u.eventLog
                     THEN [u EXCEPT !.hist.step.logged = <<offset, length>>]
                     ELSE [u EXCEPT !.hist.step.thrown = TRUE]
       IN IF s1.eventLogIndex + 1 > s1.eventLogSize
          THEN LET s2 == [s1 EXCEPT !.eventLogSize = @ * 2]
               IN IF s2.eventLogSize > MAX_EVENT_LOG_SIZE
                  THEN stopLoggingProfilingEvents(
                         [s2 EXCEPT !.hist.step.consoleError = TRUE])
                  ELSE LET newEventLog == grownEventLog(s2.eventLogSize)
                       IN set([s2 EXCEPT
                                 !.eventLogBuffer = newEventLog * BYTES_PER_ELEMENT,
                                 !.eventLog = newEventLog])
          ELSE set(s1)
  ELSE s

\* --------------------------------------------------------------- actions
TaskIds == 1..(taskIdCounter - 1)

RECURSIVE SumSeq(_)
SumSeq(q) == IF q = <<>> THEN 0 ELSE Head(q) + SumSeq(Tail(q))

\* the number of continuations callbacks have returned so far
Continuations == SumSeq(hist.fns) - Len(hist.fns)

Init ==
  /\ now = 0
  /\ tasks = <<>>
  /\ taskQueue = <<>>
  /\ timerQueue = <<>>
  /\ taskIdCounter = 1
  /\ isSchedulerPaused = FALSE
  /\ currentTask = NULL
  /\ currentPriorityLevel = NormalPriority
  /\ isPerformingWork = FALSE
  /\ isHostCallbackScheduled = FALSE
  /\ isHostTimeoutScheduled = FALSE
  /\ isMessageLoopRunning = FALSE
  /\ taskTimeoutID = NoTimeoutID
  /\ frameInterval = frameYieldMs
  /\ startTime = -1
  /\ hostCallbacks = 0
  /\ hostTimers = {}
  /\ pc = "idle"
  /\ currentTime = 0
  /\ previousPriorityLevel = NormalPriority
  /\ ticks = 0
  /\ globalBound \in BOOLEAN
  /\ scopes = <<>>
  /\ wrapped = {}
  /\ eventLogSize = 0
  /\ eventLogBuffer = NULL
  /\ eventLog = NULL
  /\ eventLogIndex = 0
  /\ eventPluginOrder = <<>>
  /\ namesToPlugins = <<>>
  /\ plugins = <<>>
  /\ eventNameDispatchConfigs = <<>>
  /\ registrationNameModules = <<>>
  /\ hist = NoHistory

\* The clock advances, between host events or while a callback runs.
Tick(deltas) ==
  /\ ticks < MaxTicks
  /\ \E d \in deltas : Commit([S EXCEPT !.now = @ + d, !.ticks = @ + 1])

\* unstable_scheduleCallback, from host code or from inside a running callback
ScheduleCallback(priorities, delays, maxTasks) ==
  /\ taskIdCounter <= maxTasks
  /\ \E p \in priorities, d \in delays : Commit(unstable_scheduleCallback(S, p, d))

\* unstable_scheduleCallback without delay, called by the running callback
ScheduleInCallback(priorities, maxTasks) ==
  /\ pc = "callback"
  /\ taskIdCounter <= maxTasks
  /\ \E p \in priorities :
       Commit([unstable_scheduleCallback(S, p, 0)
                 EXCEPT !.hist.inside = @ \cup {<<currentTask, taskIdCounter>>}])

\* startLoggingProfilingEvents is called
StartLoggingProfilingEvents ==
  /\ eventLog = NULL \/ eventLogIndex > 0
  /\ Commit(startLoggingProfilingEvents(S))

\* stopLoggingProfilingEvents is called while the log is on
StopLoggingProfilingEvents ==
  /\ eventLog # NULL
  /\ Commit(stopLoggingProfilingEvents(S))

\* logEvent is called, while the log is on, with an array of one of the
\* lengths the mark functions pass
LogEvent(lengths) ==
  /\ eventLog # NULL
  /\ \E length \in lengths : Commit(logEvent(S, length))

\* the arrays of at most MaxOrder of the given plugin names
Orderings(names) == UNION {[1..n -> names] : n \in 0..MaxOrder}

\* injectEventPluginOrder is called with null or with an array of names
InjectEventPluginOrder(orderings) ==
  \E q \in orderings, isNull \in BOOLEAN :
    /\ isNull => q = <<>>
    /\ Commit(injectEventPluginOrder(
                [S EXCEPT !.hist.step.injected = <<"order">>],
                IF isNull THEN <<>> ELSE <<q>>))

\* injectEventPluginsByName is called with an object of one or of two plugins
InjectEventPluginsByName(names, modules) ==
  \E n1, n2 \in names, m1, m2 \in modules, two \in BOOLEAN :
    /\ two => n1 # n2
    /\ ~two => (n1 = n2 /\ m1 = m2)
    /\ Commit(injectEventPluginsByName(
                [S EXCEPT !.hist.step.injected = <<"plugins">>],
                IF two
                THEN <<[name |-> n1, module |-> m1], [name |-> n2, module |-> m2]>>
                ELSE <<[name |-> n1, module |-> m1]>>))

\* unstable_scheduleCallback called with an options argument
ScheduleCallbackOptions(priorities, delays, maxTasks) ==
  /\ taskIdCounter <= maxTasks
  /\ \E p \in priorities, o \in Options(delays) :
       Commit([unstable_scheduleCallback(S, p, optionsDelay(o))
                 EXCEPT !.hist.step.call = <<p, o>>])

\* unstable_cancelCallback(t), from host code or from inside a running callback.
\* Cancelling a task whose callback is already null, and that is not running,
\* changes nothing and is a stuttering step.
CancelCallback ==
  \E t \in TaskIds :
    /\ tasks[t].callback # NULL \/ (pc = "callback" /\ currentTask = t)
    /\ t \notin hist.canceledRunning
    /\ LET running == pc = "callback" /\ currentTask = t
           s1 == unstable_cancelCallback(S, t)
       IN Commit(IF running
                 THEN [s1 EXCEPT !.hist.canceledRunning = @ \cup {t}]
                 ELSE [s1 EXCEPT !.hist.canceledWaiting = @ \cup {t}])

PauseExecution ==
  /\ ~isSchedulerPaused
  /\ Commit(unstable_pauseExecution(S))

ContinueExecution ==
  /\ hist.resumes < MaxResumes
  /\ Commit([unstable_continueExecution(S) EXCEPT !.hist.resumes = @ + 1])

\* unstable_runWithPriority(p, fn) is called, from host code, from a running
\* callback or from inside another such call; the step ends where fn starts.
RunWithPriority(levels) ==
  /\ Len(scopes) < MaxDepth
  /\ \E p \in levels :
       Commit([unstable_runWithPriority(S, p) EXCEPT !.hist.step.scope = <<"runWithPriority", p>>])

\* unstable_next(fn) is called; the step ends where fn starts.
RunNext ==
  /\ Len(scopes) < MaxDepth
  /\ Commit([unstable_next(S) EXCEPT !.hist.step.scope = <<"next">>])

\* unstable_wrapCallback(fn) is called and its result kept.
WrapCallback ==
  /\ currentPriorityLevel \notin wrapped
  /\ Cardinality(wrapped) < MaxWraps
  /\ Commit(unstable_wrapCallback(S))

\* a function returned by unstable_wrapCallback is called; the step ends
\* where the function it wraps starts.
CallWrapped ==
  /\ Len(scopes) < MaxDepth
  /\ \E w \in wrapped :
       Commit([wrappedCallback(S, w) EXCEPT !.hist.step.scope = <<"wrapped", w>>])

\* the function run by the innermost runWithPriority / next / wrapped call
\* returns: the finally runs.
ScopeReturns ==
  /\ scopes # <<>>
  /\ Commit([restorePriorityLevel(S)
               EXCEPT !.hist.step.scope = <<"return", scopes[Len(scopes)].fn>>])

\* the function run by the innermost runWithPriority / next / wrapped call
\* throws: the finally runs and the exception goes on to the caller, which
\* may catch it.
ScopeThrows ==
  /\ scopes # <<>>
  /\ Commit([restorePriorityLevel(S)
               EXCEPT !.hist.step.scope = <<"throw", scopes[Len(scopes)].fn>>])

\* unstable_forceFrameRate(fps), from host code or from a running callback
ForceFrameRate(rates) ==
  /\ pc \in {"idle", "callback"}
  /\ \E fps \in rates :
       Commit([forceFrameRate(S, fps) EXCEPT !.hist.step.fps = <<fps>>])

\* The host runs a posted performWorkUntilDeadline, on an empty stack.
HostCallbackFires ==
  /\ pc = "idle"
  /\ scopes = <<>>
  /\ hostCallbacks > 0
  /\ \E s2 \in performWorkUntilDeadline([S EXCEPT !.hostCallbacks = @ - 1,
                                                  !.hist.entry = <<now>>]) :
       Commit(s2)

\* The host fires an armed timer that is due: handleTimeout(getCurrentTime()).
HostTimeoutFires ==
  /\ pc = "idle"
  /\ scopes = <<>>
  /\ \E tm \in hostTimers :
       /\ tm.due <= now
       /\ Commit(handleTimeout([S EXCEPT !.hostTimers = @ \ {tm},
                                         !.hist.step.fired = <<now>>], now))

CallbackReturnsValue ==
  /\ pc = "callback"
  /\ scopes = <<>>
  /\ \E s2 \in valueReturned(S) : Commit(s2)

CallbackReturnsContinuation ==
  /\ pc = "callback"
  /\ scopes = <<>>
  /\ Continuations < MaxConts
  /\ Commit(continuationReturned(S))

CallbackThrows ==
  /\ pc = "callback"
  /\ scopes = <<>>
  /\ Commit(callbackThrew(S))

\* Normal tasks without delay (no host timeout is ever armed); the clock
\* advances by 5 ms, the frame interval.
Next ==
  \/ Tick({5})
  \/ ScheduleCallback({NormalPriority}, {0}, MaxTasks)
  \/ CancelCallback
  \/ HostCallbackFires
  \/ CallbackReturnsValue
  \/ CallbackReturnsContinuation
  \/ CallbackThrows

Spec == Init /\ [][Next]_vars

\* Normal tasks with no delay or a delay of 5 ms, and
\* unstable_continueExecution; the clock advances by 5 ms.
NextHost ==
  \/ Tick({5})
  \/ ScheduleCallback({NormalPriority}, {0, 5}, MaxFewTasks)
  \/ ContinueExecution
  \/ HostCallbackFires
  \/ HostTimeoutFires
  \/ CallbackReturnsValue
  \/ CallbackReturnsContinuation
  \/ CallbackThrows

SpecHost == Init /\ [][NextHost]_vars

\* Normal tasks without delay, with unstable_pauseExecution and
\* unstable_continueExecution; the clock advances by 5 ms.
NextDebug ==
  \/ Tick({5})
  \/ ScheduleCallback({NormalPriority}, {0}, MaxFewTasks)
  \/ CancelCallback
  \/ PauseExecution
  \/ ContinueExecution
  \/ HostCallbackFires
  \/ CallbackReturnsValue
  \/ CallbackReturnsContinuation
  \/ CallbackThrows

SpecDebug == Init /\ [][NextDebug]_vars

\* Normal and Low tasks without delay; the clock advances by 1 ms.
NextMix ==
  \/ Tick({1})
  \/ ScheduleCallback({NormalPriority, LowPriority}, {0}, MaxFewTasks)
  \/ CancelCallback
  \/ HostCallbackFires
  \/ CallbackReturnsValue
  \/ CallbackReturnsContinuation
  \/ CallbackThrows

SpecMix == Init /\ [][NextMix]_vars

\* Normal tasks without delay; the clock advances by the frame interval or by
\* the Normal timeout.
NextYield ==
  \/ Tick({5, 5000})
  \/ ScheduleCallback({NormalPriority}, {0}, MaxFewTasks)
  \/ CancelCallback
  \/ HostCallbackFires
  \/ CallbackReturnsValue
  \/ CallbackReturnsContinuation
  \/ CallbackThrows

SpecYield == Init /\ [][NextYield]_vars

\* Normal tasks without delay and without cancellation, under the scheduling
\* the host guarantees: a posted performWorkUntilDeadline is eventually run,
\* and a running callback eventually returns.
NextFair ==
  \/ Tick({5})
  \/ ScheduleCallback({NormalPriority}, {0}, MaxFewTasks)
  \/ HostCallbackFires
  \/ CallbackReturnsValue
  \/ CallbackReturnsContinuation
  \/ CallbackThrows

SpecFair ==
  /\ Init
  /\ [][NextFair]_vars
  /\ WF_vars(HostCallbackFires \/ CallbackReturnsValue)

\* Immediate and Normal tasks without delay; the clock advances by 5 ms.
NextPrio ==
  \/ Tick({5})
  \/ ScheduleCallback({ImmediatePriority, NormalPriority}, {0}, MaxFewTasks)
  \/ CancelCallback
  \/ HostCallbackFires
  \/ CallbackReturnsValue
  \/ CallbackReturnsContinuation
  \/ CallbackThrows

SpecPrio == Init /\ [][NextPrio]_vars

\* Tasks of every priority, NoPriority included, with every shape of options;
\* the clock advances by 5 ms.
NextSchedule ==
  \/ Tick({5})
  \/ ScheduleCallbackOptions(NoPriority..IdlePriority, {-5, 5}, MaxFewTasks)
  \/ HostCallbackFires
  \/ CallbackReturnsValue

SpecSchedule == Init /\ [][NextSchedule]_vars

\* UserBlocking and Low tasks, with unstable_runWithPriority, unstable_next
\* and unstable_wrapCallback called from host code and from callbacks.
NextScope ==
  \/ ScheduleCallback({UserBlockingPriority, LowPriority}, {0}, MaxScopeTasks)
  \/ HostCallbackFires
  \/ CallbackReturnsValue
  \/ CallbackThrows
  \/ RunWithPriority({NoPriority, ImmediatePriority, IdlePriority})
  \/ RunNext
  \/ WrapCallback
  \/ CallWrapped
  \/ ScopeReturns
  \/ ScopeThrows

SpecScope == Init /\ [][NextScope]_vars

\* Normal tasks without delay, with unstable_forceFrameRate; the clock
\* advances by 5 ms.
NextFrame ==
  \/ Tick({5})
  \/ ScheduleCallback({NormalPriority}, {0}, MaxFewTasks)
  \/ ForceFrameRate({-1, 0, 3, 125, 126})
  \/ HostCallbackFires
  \/ CallbackReturnsValue

SpecFrame == Init /\ [][NextFrame]_vars

\* Normal tasks with no delay or a delay of 5 ms, with
\* unstable_pauseExecution and unstable_continueExecution called from host
\* code and from callbacks; the clock advances by 5 ms.
NextPause ==
  \/ Tick({5})
  \/ ScheduleCallback({NormalPriority}, {0, 5}, MaxFewTasks)
  \/ PauseExecution
  \/ ContinueExecution
  \/ HostCallbackFires
  \/ CallbackReturnsValue

SpecPause == Init /\ [][NextPause]_vars

\* Normal tasks with no delay or a delay of 5 ms, cancelled from host code
\* and from callbacks; the clock advances by 5 ms.
NextCancel ==
  \/ Tick({5})
  \/ ScheduleCallback({NormalPriority}, {0, 5}, MaxFewTasks)
  \/ CancelCallback
  \/ HostCallbackFires
  \/ CallbackReturnsValue
  \/ CallbackReturnsContinuation

SpecCancel == Init /\ [][NextCancel]_vars

\* Normal tasks with no delay or a delay of 5 or 10 ms, so that a delayed
\* task can start before one scheduled earlier; the clock advances by 5 ms.
NextTimer ==
  \/ Tick({5})
  \/ ScheduleCallback({NormalPriority}, {0, 5, 10}, MaxFewTasks)
  \/ HostCallbackFires
  \/ HostTimeoutFires
  \/ CallbackReturnsValue

SpecTimer == Init /\ [][NextTimer]_vars

\* Normal and Low tasks without delay, scheduled from host code and by running
\* callbacks, which may return continuations; the clock advances by 1 ms.
NextInside ==
  \/ Tick({1})
  \/ ScheduleCallback({NormalPriority, LowPriority}, {0}, MaxFewTasks)
  \/ ScheduleInCallback({NormalPriority, LowPriority}, MaxFewTasks)
  \/ HostCallbackFires
  \/ CallbackReturnsValue
  \/ CallbackReturnsContinuation

SpecInside == Init /\ [][NextInside]_vars

\* The event log alone: logging is started and stopped, and events of three
\* and of four entries are logged; the scheduler is left as constructed.
NextProfiling ==
  \/ StartLoggingProfilingEvents
  \/ StopLoggingProfilingEvents
  \/ LogEvent({3, 4})

SpecProfiling == Init /\ [][NextProfiling]_vars

\* The event-plugin registry alone: orderings of the names a and b and
\* plugins under these names are injected in any order, with modules that
\* publish, that clash, and that are rejected.
NextRegistry ==
  \/ InjectEventPluginOrder(Orderings({"a", "b"}))
  \/ InjectEventPluginsByName({"a", "b"}, {NULL} \cup DOMAIN PluginModules)

SpecRegistry == Init /\ [][NextRegistry]_vars

\* ------------------------------------------------------------ properties
Range(q) == {q[i] : i \in DOMAIN q}

\* the step just taken entered the callback of currentTask
JustEntered == hist.step.arg # NoArg

\* a and b were submitted at the same clock reading with the same priority
\* and no delay
SameClass(a, b) ==
  /\ tasks[a].priorityLevel = tasks[b].priorityLevel
  /\ tasks[a].startTime = tasks[b].startTime
  /\ hist.delay[a] = 0
  /\ hist.delay[b] = 0

FirstInvoked(a) == <<a, 1>> \in hist.invoked

\* C1: of two tasks submitted at the same clock reading with the same
\* priority and no delay, the later one never has its callback invoked while
\* the earlier one is still waiting for its first invocation: first
\* invocations follow submission order.  (An earlier task cancelled while it
\* waited is never invoked and constrains nothing.)
C1_SubmissionOrder ==
  \A a \in TaskIds : \A b \in TaskIds :
    (a < b /\ SameClass(a, b) /\ FirstInvoked(b))
      => (FirstInvoked(a) \/ a \in hist.canceledWaiting)

\* three tasks of one class, the third entered after the first two
C1_Witness ==
  /\ taskIdCounter = 4
  /\ SameClass(1, 2) /\ SameClass(2, 3)
  /\ FirstInvoked(1) /\ FirstInvoked(2)
  /\ JustEntered /\ currentTask = 3

\* the pair (expirationTime, id) of a is not above that of b
ExpirationOrder(a, b) ==
  \/ tasks[a].expirationTime < tasks[b].expirationTime
  \/ tasks[a].expirationTime = tasks[b].expirationTime /\ a <= b

\* C2: whenever workLoop enters a task's callback, that task is the minimum
\* of taskQueue under (expirationTime, id).
C2_DispatchIsMinimum ==
  JustEntered => \A u \in Range(taskQueue) : ExpirationOrder(currentTask, u)

\* Low submitted at t=0, Normal at t=1: Normal is entered while Low waits
C2_Witness ==
  /\ taskIdCounter = 3
  /\ tasks[1].priorityLevel = LowPriority /\ tasks[1].startTime = 0
  /\ tasks[2].priorityLevel = NormalPriority /\ tasks[2].startTime = 1
  /\ JustEntered /\ currentTask = 2
  /\ 1 \in Range(taskQueue) /\ ~FirstInvoked(1)

C4_CanceledRunningNeverInvoked ==
  JustEntered => currentTask \notin hist.canceledRunning
\* the host has nothing left to run: no callback on the stack, no posted
\* performWorkUntilDeadline, no armed timer
HostQuiet == pc = "idle" /\ hostCallbacks = 0 /\ hostTimers = {}

\* C5: a task submitted with a delay and never cancelled has been promoted
\* and invoked by the time its start time has passed and the host has fired
\* every host timeout and every host callback it was given.
C5_DelayedTaskInvoked ==
  HostQuiet =>
    \A t \in TaskIds :
      (hist.delay[t] > 0 /\ tasks[t].startTime <= now /\ t \notin hist.canceledWaiting)
        => (FirstInvoked(t) /\ t \notin Range(timerQueue))

\* C6: at most one posted, not yet run, performWorkUntilDeadline.
C6_AtMostOneHostCallback == hostCallbacks <= 1

\* after a throw made performWorkUntilDeadline post its next run, a further
\* request for a host callback went through the flags and posted nothing more
C6_Witness ==
  /\ hist.threw # {}
  /\ hist.resumes = 1
  /\ pc = "idle"
  /\ isHostCallbackScheduled
  /\ hostCallbacks = 1

\* C7: at most one armed, not yet fired, not cancelled host timer.
C7_AtMostOneHostTimeout == Cardinality(hostTimers) <= 1
\* task u is in taskQueue with a callback that has not been entered yet
LiveReady(u) ==
  /\ u \in TaskIds
  /\ u \in Range(taskQueue)
  /\ tasks[u].callback # NULL

\* the function last handed over for u has been entered
LastEntered(u) == u \in TaskIds /\ <<u, hist.fns[u]>> \in hist.invoked

\* C8: when a callback throws, the exception leaves performWorkUntilDeadline,
\* which has posted its next run and left the thrower without a callback; no
\* callback of a task that threw is entered again; and once a task has
\* thrown, every task waiting in taskQueue with a callback is eventually
\* entered.
C8_ThrowIsolated ==
  /\ [](hist.step.ret.kind = "throw" =>
          /\ hist.step.thrown
          /\ pc = "idle"
          /\ hostCallbacks = 1
          /\ isMessageLoopRunning
          /\ tasks[hist.step.ret.task].callback = NULL)
  /\ [](JustEntered => currentTask \notin hist.threw)
  /\ \A u \in 1..MaxFewTasks :
       (hist.threw # {} /\ LiveReady(u)) ~> LastEntered(u)

\* task 1 threw while task 2 waited; task 2 is entered by a later run
C8_Witness ==
  /\ hist.threw = {1}
  /\ JustEntered /\ currentTask = 2
  /\ 1 \notin Range(taskQueue)
\* C9 as stated: when a continuation returns a non-function, its task is no
\* longer in taskQueue.
C9_RemovedOnCompletion ==
  (hist.step.ret.kind = "value" /\ hist.fns[hist.step.ret.task] >= 2)
    => hist.step.ret.task \notin Range(taskQueue)

\* C9, amended: a step in which a callback returns a function leaves
\* taskQueue as it was, the task in it with the same id, expirationTime and
\* sortIndex and the returned function as callback, enters no callback, and
\* ends the run with the next one posted (workLoop returned true); a callback
\* entered is always the function last handed over for its task; a step in
\* which a callback returns a non-function leaves the task without callback,
\* and out of taskQueue if it was still the root (otherwise it stays behind as
\* a tombstone until it surfaces).
C9_ContinuationKeepsPlace ==
  [][/\ hist'.step.ret.kind = "continuation" =>
          LET t == hist'.step.ret.task
          IN /\ taskQueue' = taskQueue
             /\ t \in Range(taskQueue')
             /\ hist'.fns[t] = hist.fns[t] + 1
             /\ tasks'[t] = [tasks[t] EXCEPT !.callback = hist'.fns[t]]
             /\ hist'.invoked = hist.invoked
             /\ pc' = "idle"
             /\ hostCallbacks' = hostCallbacks + 1
     /\ JustEntered' =>
          <<currentTask', hist'.fns[currentTask']>> \in hist'.invoked \ hist.invoked
     /\ hist'.step.ret.kind = "value" =>
          LET t == hist'.step.ret.task
          IN /\ tasks'[t].callback = NULL
             /\ peek(taskQueue) = t => t \notin Range(taskQueue')
    ]_vars

\* a continuation was entered by a later run, returned a non-function, and
\* its task left taskQueue
C9_Witness ==
  /\ hist.step.ret.kind = "value"
  /\ hist.fns[hist.step.ret.task] = 2
  /\ <<hist.step.ret.task, 2>> \in hist.invoked
  /\ hist.step.ret.task \notin Range(taskQueue)
\* while a callback runs: the root workLoop finds once that callback has
\* returned a non-function
RootAfterReturn ==
  peek(IF peek(taskQueue) = currentTask THEN pop(taskQueue) ELSE taskQueue)

\* a callback returns a non-function and workLoop finds a root with a callback
ReturnsOnto(r) ==
  /\ pc = "callback"
  /\ hist'.step.ret.kind = "value"
  /\ r = RootAfterReturn
  /\ r # NULL
  /\ tasks[r].callback # NULL

\* C10: workLoop leaves its loop by the break only with a root that expires
\* after the current time and with the frame interval used up, and then has
\* not entered that root; when a callback returns and the next root is
\* expired it is entered even though the frame interval is used up; when the
\* next root is not expired and the frame interval is used up the loop stops
\* before it, and the run ends with the next one posted (workLoop returned
\* true).
C10_YieldOnlyUnexpired ==
  [][/\ hist'.step.exit = "yield" =>
          LET r == peek(taskQueue')
          IN /\ r # NULL
             /\ tasks'[r].expirationTime > now'
             /\ now' - startTime' >= frameInterval'
             /\ ~JustEntered'
     /\ \A r \in TaskIds :
          (ReturnsOnto(r) /\ now - startTime >= frameInterval) =>
            IF tasks[r].expirationTime <= now
            THEN JustEntered' /\ currentTask' = r
            ELSE /\ hist'.step.exit = "yield"
                 /\ hist'.invoked = hist.invoked
                 /\ tasks'[r].callback # NULL
                 /\ pc' = "idle"
                 /\ hostCallbacks' = 1
    ]_vars

\* two Normal tasks, neither expired; the first ran past the frame interval
\* and returned: the loop broke before the second
C10_Witness ==
  /\ hist.step.exit = "yield"
  /\ hist.step.ret = [kind |-> "value", task |-> 1]
  /\ peek(taskQueue) = 2
  /\ tasks[2].priorityLevel = NormalPriority
  /\ tasks[2].callback # NULL
  /\ tasks[2].expirationTime > now
  /\ ~FirstInvoked(2)
  /\ hostCallbacks = 1
\* C11: every Immediate task in taskQueue expires before the current time,
\* and workLoop never leaves its loop by the break with an Immediate task at
\* the root of taskQueue.
C11_ImmediateNeverYielded ==
  /\ \A t \in Range(taskQueue) :
       tasks[t].priorityLevel = ImmediatePriority => tasks[t].expirationTime < now
  /\ hist.step.exit = "yield" =>
       tasks[peek(taskQueue)].priorityLevel # ImmediatePriority

\* a callback ran for the whole frame interval and returned; the Immediate
\* task at the root was entered all the same
C11_Witness ==
  /\ hist.step.ret.kind = "value"
  /\ JustEntered
  /\ tasks[currentTask].priorityLevel = ImmediatePriority
  /\ now - startTime >= frameInterval
\* C12: the argument a callback is entered with is the boolean
\* expirationTime <= currentTime of its task, with workLoop's currentTime at
\* the dispatch.
C12_DidTimeoutArgument ==
  JustEntered =>
    hist.step.arg = <<tasks[currentTask].expirationTime <= currentTime>>
\* the timeouts C13 lists, by priority
ListedTimeout(p) ==
  CASE p = ImmediatePriority -> -1
    [] p = UserBlockingPriority -> 250
    [] p = NormalPriority -> 5000
    [] p = LowPriority -> 10000
    [] p = IdlePriority -> 2^30 - 1

\* the delay C13 reads from the options: a missing, non-numeric or
\* non-positive delay counts as 0
ListedDelay(o) ==
  IF o.delay # <<>> /\ o.delay[1] > 0 THEN o.delay[1] ELSE 0

\* C13: a call scheduleCallback(p, cb, options) with p one of the five levels
\* creates the task taskIdCounter with startTime = now + max(0, delay) and
\* expirationTime = startTime + timeout(p); the task goes to timerQueue with
\* sortIndex = startTime if startTime > now, and otherwise to taskQueue with
\* sortIndex = expirationTime; the queues are otherwise unchanged.
C13_ScheduledTaskFields ==
  [][(hist'.step.call # <<>> /\ hist'.step.call[1] \in ImmediatePriority..IdlePriority) =>
       LET p == hist'.step.call[1]
           o == hist'.step.call[2]
           id == taskIdCounter
           task == tasks'[id]
       IN /\ taskIdCounter' = id + 1
          /\ Len(tasks') = id
          /\ task.id = id
          /\ task.startTime = now + ListedDelay(o)
          /\ task.expirationTime = task.startTime + ListedTimeout(p)
          /\ IF task.startTime > now
             THEN /\ task.sortIndex = task.startTime
                  /\ Range(timerQueue') = Range(timerQueue) \cup {id}
                  /\ taskQueue' = taskQueue
             ELSE /\ task.sortIndex = task.expirationTime
                  /\ Range(taskQueue') = Range(taskQueue) \cup {id}
                  /\ timerQueue' = timerQueue
    ]_vars

\* an Idle task was submitted with a delay of 5 ms and sits in timerQueue
C13_Witness ==
  /\ hist.step.call = <<IdlePriority, [type |-> "object", delay |-> <<5>>]>>
  /\ tasks[taskIdCounter - 1].expirationTime = now + 5 + 1073741823
  /\ taskIdCounter - 1 \in Range(timerQueue)
\* C14: every task ever created stores one of the five levels Immediate..Idle
\* as its priorityLevel, and currentPriorityLevel is one of the five levels.
C14_StoredPriorityInRange ==
  /\ \A t \in TaskIds : tasks[t].priorityLevel \in ImmediatePriority..IdlePriority
  /\ currentPriorityLevel \in ImmediatePriority..IdlePriority
\* C15: with no task callback running and no runWithPriority / next / wrapped
\* call on the stack, getCurrentPriorityLevel returns Normal (so after every
\* flushWork, returned or thrown); in a task callback with no such call on the
\* stack it returns the priorityLevel of the task.
C15_CurrentPriorityLevel ==
  scopes = <<>> =>
    IF pc = "callback"
    THEN unstable_getCurrentPriorityLevel(S) = tasks[currentTask].priorityLevel
    ELSE unstable_getCurrentPriorityLevel(S) = NormalPriority

\* the callback of a UserBlocking task threw: flushWork has left Normal behind
C15_Witness ==
  /\ hist.step.ret.kind = "throw"
  /\ hist.step.thrown
  /\ tasks[hist.step.ret.task].priorityLevel = UserBlockingPriority
  /\ unstable_getCurrentPriorityLevel(S) = NormalPriority
\* the innermost call on the stack
Top(q) == q[Len(q)]

\* the step enters fn of the call named kind
ScopeEnters(kind) == hist'.step.scope # <<>> /\ hist'.step.scope[1] = kind

\* the step leaves the call named kind, by return or by throw
ScopeExits(kind) ==
  /\ hist'.step.scope # <<>>
  /\ hist'.step.scope[1] \in {"return", "throw"}
  /\ hist'.step.scope[2] = kind

\* while fn of the innermost call, named kind, runs and no call is entered or
\* left, currentPriorityLevel keeps its value; leaving the call restores the
\* value currentPriorityLevel had immediately before the call.
ScopeFrame(kind) ==
  /\ ScopeEnters(kind) =>
       /\ Len(scopes') = Len(scopes) + 1
       /\ SubSeq(scopes', 1, Len(scopes)) = scopes
       /\ Top(scopes').previousPriorityLevel = currentPriorityLevel
  /\ (scopes # <<>> /\ scopes' = scopes /\ Top(scopes).fn = kind) =>
       currentPriorityLevel' = currentPriorityLevel
  /\ ScopeExits(kind) =>
       /\ currentPriorityLevel' = Top(scopes).previousPriorityLevel
       /\ scopes' = SubSeq(scopes, 1, Len(scopes) - 1)

\* C16: runWithPriority(p, fn) runs fn with currentPriorityLevel = p, Normal
\* when p is none of the five levels, and on exit, by return or by throw,
\* currentPriorityLevel is what it was immediately before the call, nested
\* calls included.
C16_RunWithPriorityRestores ==
  [][/\ ScopeEnters("runWithPriority") =>
          LET p == hist'.step.scope[2]
          IN currentPriorityLevel' =
               (IF p \in ImmediatePriority..IdlePriority THEN p ELSE NormalPriority)
     /\ ScopeFrame("runWithPriority")
    ]_vars

\* a runWithPriority call made inside runWithPriority(Idle, ...) has thrown:
\* the level is Idle again
C16_Witness ==
  /\ hist.step.scope = <<"throw", "runWithPriority">>
  /\ Len(scopes) = 1
  /\ scopes[1].fn = "runWithPriority"
  /\ currentPriorityLevel = IdlePriority

\* C17: next(fn) runs fn at Normal when the current level is Immediate,
\* UserBlocking or Normal and at the current level when that is Low or Idle,
\* never at a level more urgent than Normal, and restores the previous level
\* on return or throw.
C17_NextLowersToNormal ==
  [][/\ ScopeEnters("next") =>
          /\ currentPriorityLevel \in {ImmediatePriority, UserBlockingPriority, NormalPriority}
               => currentPriorityLevel' = NormalPriority
          /\ currentPriorityLevel \in {LowPriority, IdlePriority}
               => currentPriorityLevel' = currentPriorityLevel
          /\ currentPriorityLevel' >= NormalPriority
     /\ ScopeFrame("next")
    ]_vars

\* next called in the callback of a UserBlocking task has returned: the level
\* is UserBlocking again
C17_Witness ==
  /\ hist.step.scope = <<"return", "next">>
  /\ pc = "callback"
  /\ scopes = <<>>
  /\ tasks[currentTask].priorityLevel = UserBlockingPriority
  /\ currentPriorityLevel = UserBlockingPriority

\* C18: unstable_wrapCallback captures the level current when it is called;
\* every call of the function it returned runs the wrapped function at the
\* captured level, whatever the level at the call, and restores the level of
\* the call on return or throw.
C18_WrapCapturesAtWrapTime ==
  [][/\ wrapped' # wrapped => wrapped' = wrapped \cup {currentPriorityLevel}
     /\ ScopeEnters("wrapped") =>
          /\ hist'.step.scope[2] \in wrapped
          /\ currentPriorityLevel' = hist'.step.scope[2]
     /\ ScopeFrame("wrapped")
    ]_vars

\* a function wrapped at Low is called from host code, at Normal, and runs at
\* Low
C18_Witness ==
  /\ hist.step.scope = <<"wrapped", LowPriority>>
  /\ pc = "idle"
  /\ Len(scopes) = 1
  /\ scopes[1].previousPriorityLevel = NormalPriority
  /\ currentPriorityLevel = LowPriority
\* C19: once performWorkUntilDeadline has been entered, startTime is the
\* clock reading at its latest entry and shouldYieldToHost() is true exactly
\* when now - startTime >= frameInterval: false throughout the first
\* frameInterval ms after the entry.
C19_ShouldYieldAfterInterval ==
  hist.entry # <<>> =>
    /\ startTime = hist.entry[1]
    /\ shouldYieldToHost(S) <=> (now - hist.entry[1] >= frameInterval)

\* a callback has run for exactly the frame interval: shouldYieldToHost() is
\* true
C19_Witness ==
  /\ pc = "callback"
  /\ hist.entry # <<>>
  /\ now - hist.entry[1] = frameInterval
  /\ shouldYieldToHost(S)

\* every variable of the scheduler but frameInterval
AllButFrameInterval ==
  <<now, tasks, taskQueue, timerQueue, taskIdCounter, isSchedulerPaused,
    currentTask, currentPriorityLevel, isPerformingWork,
    isHostCallbackScheduled, isHostTimeoutScheduled, isMessageLoopRunning,
    taskTimeoutID, startTime, hostCallbacks, hostTimers, pc, currentTime,
    previousPriorityLevel, scopes, wrapped>>

\* C20: forceFrameRate(fps) leaves frameInterval alone for fps < 0 and for
\* fps > 125, sets it to floor(1000 / fps) for 1 <= fps <= 125 and to the
\* default 5 ms for fps = 0, and changes nothing else.
C20_ForceFrameRate ==
  [][hist'.step.fps # <<>> =>
       LET fps == hist'.step.fps[1]
       IN /\ (fps < 0 \/ fps > 125) => frameInterval' = frameInterval
          /\ (1 <= fps /\ fps <= 125) =>
               /\ frameInterval' * fps <= 1000
               /\ 1000 < (frameInterval' + 1) * fps
          /\ fps = 0 => frameInterval' = 5
          /\ AllButFrameInterval' = AllButFrameInterval
    ]_vars

\* forceFrameRate(125) was called from a running callback: the interval is
\* 8 ms
C20_Witness ==
  /\ hist.step.fps = <<125>>
  /\ frameInterval = 8
  /\ pc = "callback"

\* the state s with isSchedulerPaused as given
Paused(s, b) == [s EXCEPT !.isSchedulerPaused = b]

\* isSchedulerPaused is never observed: whatever the host can run next
\* (a posted performWorkUntilDeadline, the return or throw of the running
\* callback) leaves the same states behind with the flag set as with the flag
\* clear, the flag itself apart.
PausedUnobserved ==
  /\ (pc = "idle" /\ hostCallbacks > 0) =>
       {Paused(s, TRUE) : s \in performWorkUntilDeadline(Paused(S, FALSE))}
         = performWorkUntilDeadline(Paused(S, TRUE))
  /\ pc = "callback" =>
       /\ {Paused(s, TRUE) : s \in valueReturned(Paused(S, FALSE))}
            = valueReturned(Paused(S, TRUE))
       /\ Paused(continuationReturned(Paused(S, FALSE)), TRUE)
            = continuationReturned(Paused(S, TRUE))
       /\ Paused(callbackThrew(Paused(S, FALSE)), TRUE)
            = callbackThrew(Paused(S, TRUE))

\* the step is a call of unstable_pauseExecution that sets the flag
PauseStep == ~isSchedulerPaused /\ isSchedulerPaused'

\* the step is a call of unstable_continueExecution
ContinueStep == hist'.resumes = hist.resumes + 1

\* the queues, the tasks, the host timers and everything else a call of
\* unstable_pauseExecution or unstable_continueExecution has no business with
QueuesAndTimers ==
  <<now, tasks, taskQueue, timerQueue, taskIdCounter, currentTask,
    currentPriorityLevel, isPerformingWork, isHostTimeoutScheduled,
    taskTimeoutID, frameInterval, startTime, hostTimers, pc, currentTime,
    previousPriorityLevel, scopes, wrapped, hist.invoked>>

\* the host-callback request and its flags
HostCallbackRequest == <<isHostCallbackScheduled, isMessageLoopRunning, hostCallbacks>>

\* C21 as stated: a call of pauseExecution or continueExecution changes
\* neither the queues nor the host-callback and host-timeout requests and
\* their flags.
C21_PauseContinueNoOps ==
  [][(PauseStep \/ ContinueStep) =>
       /\ QueuesAndTimers' = QueuesAndTimers
       /\ HostCallbackRequest' = HostCallbackRequest
    ]_vars

\* C21, amended: pauseExecution changes nothing but isSchedulerPaused, and
\* nothing observes that flag; continueExecution clears the flag and changes
\* neither the queues, nor the tasks, nor the host timers and their flag, but
\* when no host callback is scheduled and no work is being performed it sets
\* isHostCallbackScheduled and requests a host callback, which posts a
\* performWorkUntilDeadline unless the message loop is already running.
C21_PauseUnobserved ==
  /\ []PausedUnobserved
  /\ [][/\ PauseStep =>
             /\ QueuesAndTimers' = QueuesAndTimers
             /\ HostCallbackRequest' = HostCallbackRequest
        /\ ContinueStep =>
             /\ ~isSchedulerPaused'
             /\ QueuesAndTimers' = QueuesAndTimers
             /\ IF ~isHostCallbackScheduled /\ ~isPerformingWork
                THEN /\ isHostCallbackScheduled'
                     /\ isMessageLoopRunning'
                     /\ hostCallbacks' =
                          hostCallbacks + (IF isMessageLoopRunning THEN 0 ELSE 1)
                ELSE HostCallbackRequest' = HostCallbackRequest
       ]_vars

\* the scheduler was paused, then resumed and paused again, while a task
\* waited: the task's callback is entered with the flag set
C21_Witness ==
  /\ isSchedulerPaused
  /\ hist.resumes = 1
  /\ JustEntered

\* the tasks cancelled so far, waiting or running
Canceled == hist.canceledWaiting \cup hist.canceledRunning

\* every variable of the scheduler but the table of tasks
AllButTasks ==
  <<now, taskQueue, timerQueue, taskIdCounter, isSchedulerPaused, currentTask,
    currentPriorityLevel, isPerformingWork, isHostCallbackScheduled,
    isHostTimeoutScheduled, isMessageLoopRunning, taskTimeoutID, frameInterval,
    startTime, hostCallbacks, hostTimers, pc, currentTime,
    previousPriorityLevel, scopes, wrapped>>

\* cancelling a task that has no callback (completed, cancelled before, or
\* running) changes nothing, and cancelling any task twice is cancelling it
\* once
CancelIdempotent ==
  \A t \in TaskIds :
    /\ tasks[t].callback = NULL => unstable_cancelCallback(S, t) = S
    /\ unstable_cancelCallback(unstable_cancelCallback(S, t), t)
         = unstable_cancelCallback(S, t)

C23_TaskIdsAscending ==
  /\ \A i \in DOMAIN tasks : tasks[i].id = i
  /\ taskIdCounter = Len(tasks) + 1

\* task 1 was entered at t=0; task 2 was cancelled; task 3 was scheduled at
\* t=5 from inside the callback of task 1, and has id 3
C23_Witness ==
  /\ Len(tasks) = 3
  /\ pc = "callback" /\ currentTask = 1 /\ hist.fns[1] = 1
  /\ hist.entry = <<0>>
  /\ 2 \in hist.canceledWaiting
  /\ tasks[3].startTime = 5
  /\ tasks[3].id = 3

NoDuplicates(q) == \A i \in DOMAIN q : \A j \in DOMAIN q : i # j => q[i] # q[j]

\* C25: no task is in both taskQueue and timerQueue, none is twice in either,
\* every entry of timerQueue has sortIndex = startTime and every entry of
\* taskQueue has sortIndex = expirationTime.
C25_QueueMembership ==
  /\ NoDuplicates(taskQueue)
  /\ NoDuplicates(timerQueue)
  /\ Range(taskQueue) \cap Range(timerQueue) = {}
  /\ \A t \in Range(timerQueue) : tasks[t].sortIndex = tasks[t].startTime
  /\ \A t \in Range(taskQueue) : tasks[t].sortIndex = tasks[t].expirationTime

\* a delayed task waits in timerQueue while a task whose callback returned a
\* continuation is still, once, in taskQueue
C25_Witness ==
  /\ timerQueue # <<>>
  /\ \E t \in Range(taskQueue) : tasks[t].callback = 2
  /\ hist.step.ret.kind = "continuation"

\* C26: after a step in which advanceTimers(time) was called, the root of
\* timerQueue is absent or a live task with startTime > time, and no live
\* task with startTime <= time is left in timerQueue.
C26_AdvanceTimersPromotes ==
  hist.step.advanced # <<>> =>
    LET time == hist.step.advanced[1]
        root == peek(timerQueue)
    IN /\ root # NULL =>
            /\ tasks[root].callback # NULL
            /\ tasks[root].startTime > time
       /\ \A t \in Range(timerQueue) :
            tasks[t].callback # NULL => tasks[t].startTime > time

\* C27: a step in which an armed host timeout fires leaves
\* isHostTimeoutScheduled false; if no host callback was scheduled, it leaves
\* isHostCallbackScheduled true and a performWorkUntilDeadline posted when
\* taskQueue is not empty, and otherwise, when timerQueue is not empty, a host
\* timeout armed for the start time of the root of timerQueue.
C27_HandleTimeout ==
  [][hist'.step.fired # <<>> =>
       /\ ~isHostTimeoutScheduled'
       /\ ~isHostCallbackScheduled =>
            IF taskQueue' # <<>>
            THEN isHostCallbackScheduled' /\ hostCallbacks' > 0
            ELSE timerQueue' # <<>> =>
                   \E tm \in hostTimers' :
                     /\ tm.id = taskTimeoutID'
                     /\ tm.due = tasks'[peek(timerQueue')].startTime
    ]_vars

\* C28: with no work being performed, taskQueue empty and a live task in
\* timerQueue, a host timeout is armed or a performWorkUntilDeadline is
\* posted.
C28_DelayedTaskHasWakeup ==
  (/\ ~isPerformingWork
   /\ taskQueue = <<>>
   /\ \E t \in Range(timerQueue) : tasks[t].callback # NULL)
    => (hostTimers # {} \/ hostCallbacks > 0)

\* flushWork was left in the step just taken, by return or by exception
FlushWorkExited == hist.step.returned # <<>> \/ hist.step.thrown

\* C29: a step in which flushWork exits, by return or by exception, leaves
\* isPerformingWork false, currentTask null and currentPriorityLevel at the
\* value it had when flushWork was entered (the value flushWork saved, which
\* stays saved while callbacks run); isPerformingWork is true exactly while a
\* callback called by workLoop is on the stack.
C29_FlushWorkFinally ==
  [][/\ FlushWorkExited' =>
          /\ ~isPerformingWork'
          /\ currentTask' = NULL
          /\ currentPriorityLevel' =
               (IF pc = "callback" THEN previousPriorityLevel ELSE currentPriorityLevel)
     /\ (pc = "idle" /\ pc' = "callback") => previousPriorityLevel' = currentPriorityLevel
     /\ (pc = "callback" /\ pc' = "callback") => previousPriorityLevel' = previousPriorityLevel
     /\ isPerformingWork' <=> (pc' = "callback")
    ]_vars

\* the callback of a Low task threw: flushWork has left no work in progress,
\* no current task and the level Normal it was entered with
C29_Witness ==
  /\ hist.step.thrown
  /\ hist.step.ret.kind = "throw"
  /\ tasks[hist.step.ret.task].priorityLevel = LowPriority
  /\ ~isPerformingWork
  /\ currentTask = NULL
  /\ currentPriorityLevel = NormalPriority

\* C30: a step in which the host enters performWorkUntilDeadline with the
\* message loop running ends with isHostCallbackScheduled and
\* isHostTimeoutScheduled false; when it ends inside the first callback, the
\* host timeout taskTimeoutID named has been cancelled if
\* isHostTimeoutScheduled was set, and no timer has been touched otherwise;
\* and while isPerformingWork is true both flags are false, whatever the
\* running callback schedules or cancels.
C30_FlushWorkSupersedes ==
  [][/\ (pc = "idle" /\ (JustEntered' \/ FlushWorkExited')) =>
          /\ ~isHostCallbackScheduled'
          /\ ~isHostTimeoutScheduled'
     /\ (pc = "idle" /\ JustEntered') =>
          IF isHostTimeoutScheduled
          THEN /\ taskTimeoutID' = NoTimeoutID
               /\ hostTimers' = {tm \in hostTimers : tm.id # taskTimeoutID}
          ELSE /\ taskTimeoutID' = taskTimeoutID
               /\ hostTimers' = hostTimers
     /\ isPerformingWork' => (~isHostCallbackScheduled' /\ ~isHostTimeoutScheduled')
    ]_vars

\* a delayed task was scheduled first, which armed a host timeout, then a
\* ready task; the ready task's callback runs: no host timer is armed any
\* more and both flags are false
C30_Witness ==
  /\ Len(tasks) >= 2
  /\ hist.delay[1] > 0
  /\ hist.delay[2] = 0
  /\ pc = "callback" /\ currentTask = 2
  /\ isPerformingWork
  /\ hostTimers = {}
  /\ ~isHostCallbackScheduled /\ ~isHostTimeoutScheduled

\* the step is a call of unstable_scheduleCallback that created a delayed task
DelayedTaskAdded ==
  /\ Len(tasks') = Len(tasks) + 1
  /\ tasks'[Len(tasks')].startTime > now

\* C31: a call of scheduleCallback that adds a delayed task, when taskQueue
\* is empty and the new task is the root of timerQueue, cancels the host
\* timeout taskTimeoutID names if isHostTimeoutScheduled was set, arms one
\* due at the new task's startTime and leaves isHostTimeoutScheduled true;
\* otherwise it changes neither the armed timers, nor taskTimeoutID, nor the
\* flag; in both cases it posts no performWorkUntilDeadline and changes
\* neither isHostCallbackScheduled nor isMessageLoopRunning.
C31_DelayedTaskRearmsTimeout ==
  [][DelayedTaskAdded =>
       LET new == Len(tasks')
           kept == IF isHostTimeoutScheduled
                   THEN {tm \in hostTimers : tm.id # taskTimeoutID}
                   ELSE hostTimers
       IN /\ IF taskQueue = <<>> /\ peek(timerQueue') = new
             THEN /\ isHostTimeoutScheduled'
                  /\ hostTimers' =
                       kept \cup {[id |-> taskTimeoutID',
                                   due |-> now + (tasks'[new].startTime - now)]}
                  /\ taskTimeoutID' # NoTimeoutID
             ELSE /\ isHostTimeoutScheduled' = isHostTimeoutScheduled
                  /\ hostTimers' = hostTimers
                  /\ taskTimeoutID' = taskTimeoutID
          /\ HostCallbackRequest' = HostCallbackRequest
    ]_vars

\* a task delayed by 10 ms was scheduled, then one delayed by 5 ms: the
\* timeout armed for the first is cancelled and one is armed for the second
C31_Witness ==
  /\ Len(tasks) = 2
  /\ timerQueue = <<2, 1>>
  /\ tasks[2].startTime < tasks[1].startTime
  /\ isHostTimeoutScheduled
  /\ hostTimers = {[id |-> taskTimeoutID, due |-> tasks[2].startTime]}

\* the step is a call of unstable_scheduleCallback or unstable_cancelCallback
\* made while a task callback is on the stack
CalledFromCallback ==
  /\ pc = "callback"
  /\ Len(tasks') = Len(tasks) + 1 \/ Canceled' # Canceled

\* C32: a call of scheduleCallback or cancelCallback made from inside a
\* running task callback requests no host callback (the flags of the request
\* and the posted performWorkUntilDeadline invocations are unchanged) and
\* starts no workLoop: the same callback is still on the stack, no callback
\* has been entered and performWorkUntilDeadline has not been entered; while
\* isPerformingWork is true nothing is posted beyond what was.
C32_NoNestedWork ==
  [][/\ CalledFromCallback =>
          /\ HostCallbackRequest' = HostCallbackRequest
          /\ pc' = "callback"
          /\ currentTask' = currentTask
          /\ isPerformingWork'
          /\ hist'.invoked = hist.invoked
          /\ hist'.entry = hist.entry
          /\ ~FlushWorkExited'
     /\ (isPerformingWork /\ isPerformingWork') =>
          (JustEntered' \/ HostCallbackRequest' = HostCallbackRequest)
    ]_vars

\* the callback of task 1, entered at t=0, has cancelled task 1 and at t=5
\* scheduled task 2 without delay: it is still running and nothing is posted
C32_Witness ==
  /\ pc = "callback" /\ currentTask = 1 /\ hist.fns[1] = 1
  /\ hist.entry = <<0>>
  /\ 1 \in hist.canceledRunning
  /\ Len(tasks) = 2
  /\ hist.delay[2] = 0 /\ tasks[2].startTime = 5
  /\ hostCallbacks = 0
  /\ ~isHostCallbackScheduled

\* taskQueue holds a live task, no work is being performed, and yet the
\* message loop is not running or no performWorkUntilDeadline is posted
LostWakeup ==
  /\ ~isPerformingWork
  /\ \E t \in Range(taskQueue) : tasks[t].callback # NULL
  /\ ~(isMessageLoopRunning /\ hostCallbacks > 0)

\* C33: there is no lost wake-up for ready work, isHostCallbackScheduled
\* implies isMessageLoopRunning, and once the host has nothing left to run
\* (no callback on the stack, no posted performWorkUntilDeadline) every task
\* scheduled without delay and never cancelled has had its callback invoked.
C33_ReadyTaskInvoked ==
  /\ ~LostWakeup
  /\ isHostCallbackScheduled => isMessageLoopRunning
  /\ (pc = "idle" /\ hostCallbacks = 0) =>
       \A t \in TaskIds :
         (hist.delay[t] = 0 /\ t \notin Canceled) => FirstInvoked(t)

\* C34: when task a scheduled task b without delay from inside its callback
\* and returned a continuation, the continuation of a is entered while b
\* still waits only if a.expirationTime <= b.expirationTime, and b is entered
\* while the continuation of a still waits only if
\* b.expirationTime < a.expirationTime.
C34_ContinuationOrder ==
  JustEntered =>
    \A pair \in hist.inside :
      LET a == pair[1]
          b == pair[2]
      IN /\ (currentTask = a /\ hist.fns[a] >= 2 /\ tasks[b].callback # NULL) =>
              tasks[a].expirationTime <= tasks[b].expirationTime
         /\ (currentTask = b /\ hist.fns[a] >= 2 /\ tasks[a].callback # NULL) =>
              tasks[b].expirationTime < tasks[a].expirationTime

\* a Low task scheduled a Normal task from inside its callback and returned
\* a continuation: the Normal task is entered while the continuation waits
C34_Witness ==
  /\ JustEntered
  /\ currentTask = 2
  /\ hist.inside = {<<1, 2>>}
  /\ tasks[1].priorityLevel = LowPriority
  /\ tasks[2].priorityLevel = NormalPriority
  /\ tasks[1].callback = 2
  /\ 1 \in Range(taskQueue)

\* the functions entered so far are functions that were handed over
InvokedWereHanded ==
  \A pair \in hist.invoked : pair[1] \in TaskIds /\ pair[2] \in 1..hist.fns[pair[1]]

\* task t is not running and has no function left to call
Done(t) == tasks[t].callback = NULL /\ ~(pc = "callback" /\ currentTask = t)

\* C35: every function handed to the scheduler (a task's callback or a
\* continuation) is entered at most once: each entry of a callback enters a
\* function that was handed over and had not been entered before, and a task
\* that is not running and has no function left is not entered by the next
\* step, whether it has left taskQueue or waits in it as a tombstone.
C35_InvokedAtMostOnce ==
  /\ []InvokedWereHanded
  /\ [][/\ hist'.step.arg # NoArg =>
             \E fn \in 1..(MaxConts + 2) :
               <<currentTask', fn>> \in hist'.invoked \ hist.invoked
         /\ \A t \in TaskIds :
              Done(t) => ~(hist'.step.arg # NoArg /\ currentTask' = t)]_vars

\* a Low task scheduled a more urgent task during its only run, returned a
\* non-function while that task was the root, stayed in taskQueue as a
\* tombstone, and has been discarded after the urgent task ran
C35_Witness ==
  /\ hist.inside = {<<1, 2>>}
  /\ tasks[2].expirationTime < tasks[1].expirationTime
  /\ hist.fns[1] = 1
  /\ hist.invoked = {<<1, 1>>, <<2, 1>>}
  /\ pc = "idle"
  /\ taskQueue = <<>>

\* the scheduler's queues and flags
QueuesAndFlags ==
  <<tasks, taskQueue, timerQueue, taskIdCounter, currentTask,
    currentPriorityLevel, isSchedulerPaused, isPerformingWork,
    isHostCallbackScheduled, isHostTimeoutScheduled, isMessageLoopRunning>>

\* C36: while events are logged the event log has 131072 int32 slots at the
\* start, twice as many after each growth, and never more than 524288; a
\* logEvent call that reports the overflow records nothing and leaves size,
\* buffer, log and index cleared; no step of the log changes the scheduler's
\* queues and flags.
C36_EventLogBounded ==
  /\ [](eventLog # NULL => eventLog <= MAX_EVENT_LOG_SIZE)
  /\ [][/\ (eventLog = NULL /\ eventLog' # NULL) =>
              eventLog' = INITIAL_EVENT_LOG_SIZE
        /\ (eventLog # NULL /\ eventLog' > eventLog) =>
              eventLog' = 2 * eventLog
        /\ hist'.step.consoleError =>
              /\ hist'.step.logged = <<>>
              /\ eventLogSize' = 0
              /\ eventLogBuffer' = NULL
              /\ eventLog' = NULL
              /\ eventLogIndex' = 0
        /\ UNCHANGED QueuesAndFlags]_vars

\* every filled slot of plugins holds the module registered under the name
\* the ordering has at that index
SlotsFollowOrdering ==
  \A i \in DOMAIN plugins :
    /\ eventPluginOrder # <<>>
    /\ i \in 1..Len(eventPluginOrder[1])
    /\ plugins[i] # NULL
    /\ plugins[i] = property(namesToPlugins, eventPluginOrder[1][i])

\* C37: injectEventPluginOrder succeeds at most once: an ordering, once set,
\* never changes, and a call made when one is set throws and leaves the
\* registry as it was; and after any sequence of injections every filled
\* slot plugins[i] holds the module registered under eventPluginOrder[i].
C37_PluginOrderFixed ==
  /\ []SlotsFollowOrdering
  /\ [][/\ eventPluginOrder # <<>> => eventPluginOrder' = eventPluginOrder
        /\ (hist'.step.injected = <<"order">> /\ eventPluginOrder # <<>>) =>
              /\ hist'.step.thrown
              /\ UNCHANGED <<namesToPlugins, plugins, eventNameDispatchConfigs,
                             registrationNameModules>>]_vars

\* two plugins were injected, "a" first, and then the ordering b, a: both
\* slots are filled, "b" in the first
C37_Witness ==
  /\ hist.step.injected = <<"order">>
  /\ ~hist.step.thrown
  /\ eventPluginOrder = <<(<<"b", "a">>)>>
  /\ Len(namesToPlugins) = 2
  /\ namesToPlugins[1].name = "a"
  /\ DOMAIN plugins = {1, 2}
  /\ plugins[1] = namesToPlugins[2].module
  /\ plugins[1] # plugins[2]

====
